---- MODULE Spec2Model ----
(***************************************************************************)
(* A state-machine model of file_organizer/cli.py: the three organizers    *)
(* (by extension, by modification date, by size), the command `main` that  *)
(* runs them in a fixed order, and the filesystem they act on.             *)
(*                                                                         *)
(* Conventions.  A Python str is a tuple of one-character strings, so that *)
(* suffix extraction, lower-casing, str.format and path joining are        *)
(* computed character by character.  A path is the tuple of the names      *)
(* below the root directory given on the command line; the root itself is  *)
(* the empty tuple.  The filesystem is a function from the paths that      *)
(* exist to their inode data.  Timestamps are whole seconds and the local  *)
(* time zone is UTC.  rename and mkdir follow POSIX.                       *)
(***************************************************************************)
EXTENDS Integers, Sequences, FiniteSets, TLC

VARIABLES
    fs,          \* the directory tree below the root: path -> inode data
    args,        \* the command line of the invocation (parameters of main)
    stage,       \* the line of main the invocation has reached
    phase,       \* the position inside the organizer's for loop
    items,       \* entries the iterator has listed and not yet yielded
    listed,      \* directories whose entries the iterator has listed
    item,        \* the loop variable `item`
    dest_dir,    \* the local `dest_dir` of the current iteration
    console,     \* the per-file lines printed by this process
    exc,         \* the exception that left main and the call that raised it
    runs,        \* the number of invocations started so far
    deletes,     \* the number of files another process has deleted
    yielded,     \* history: the entries each walk has yielded
    classified,  \* history: the files for which a folder name was computed
    fsInv,       \* history: the tree when the invocation started
    fsRun,       \* history: the tree when the current organizer started
    ran,         \* history: the organizer that has just returned
    prev         \* history: how the previous invocation ended

vars == <<fs, args, stage, phase, items, listed, item, dest_dir, console, exc,
          runs, deletes, yielded, classified, fsInv, fsRun, ran, prev>>

-----------------------------------------------------------------------------
(* Bounds of the model. *)

\* how many times the same command line is run in a row
MaxRuns == 2

\* how many files another process may delete while the program runs
MaxDeletes == 1

\* how far around each bucket boundary the sizes of SpecSize are drawn
SizeSpread == 12

-----------------------------------------------------------------------------
(* Python strings. *)

\* str.lower on the letters that occur in the model's file names
lower_char(c) ==
    CASE c = "T" -> "t"
      [] c = "X" -> "x"
      [] c = "J" -> "j"
      [] c = "P" -> "p"
      [] c = "G" -> "g"
      [] OTHER -> c

lower(s) == [i \in 1..Len(s) |-> lower_char(s[i])]

startswith(s, prefix) ==
    /\ Len(s) >= Len(prefix)
    /\ SubSeq(s, 1, Len(prefix)) = prefix

\* str.rfind for a single character, 0-based, -1 when absent
rfind(s, c) ==
    LET hits == {i \in 1..Len(s) : s[i] = c}
    IN  IF hits = {} THEN -1
        ELSE (CHOOSE i \in hits : \A j \in hits : j <= i) - 1

\* str.find of a character at or after the 1-based position from; 0 when absent
find_from(s, c, from) ==
    LET hits == {i \in from..Len(s) : s[i] = c}
    IN  IF hits = {} THEN 0
        ELSE CHOOSE i \in hits : \A j \in hits : i <= j

Digits == <<"0", "1", "2", "3", "4", "5", "6", "7", "8", "9">>

\* str(n) for a non-negative int, as format() renders an int field
RECURSIVE str_int(_)
str_int(n) ==
    IF n < 10 THEN <<Digits[n + 1]>>
    ELSE str_int(n \div 10) \o <<Digits[(n % 10) + 1]>>

\* f"{n:02}": zero-padded to at least two digits
pad02(n) == IF n < 10 THEN <<"0">> \o str_int(n) ELSE str_int(n)

\* str.format(**kwargs) of a template with balanced braces: replacement
\* fields are looked up by name, and a name that was not supplied raises
\* KeyError.  The result is [raised, value].
RECURSIVE format_from(_, _, _)
format_from(template, i, kwargs) ==
    IF i > Len(template) THEN [raised |-> "none", value |-> <<>>]
    ELSE IF template[i] = "{" THEN
        LET close == find_from(template, "}", i)
            field == SubSeq(template, i + 1, close - 1)
        IN  IF field \notin DOMAIN kwargs
            THEN [raised |-> "KeyError", value |-> <<>>]
            ELSE LET rest == format_from(template, close + 1, kwargs)
                 IN  [raised |-> rest.raised,
                      value |-> kwargs[field] \o rest.value]
    ELSE LET rest == format_from(template, i + 1, kwargs)
         IN  [raised |-> rest.raised, value |-> <<template[i]>> \o rest.value]

format(template, kwargs) == format_from(template, 1, kwargs)

-----------------------------------------------------------------------------
(* pathlib. *)

\* PurePath.suffix of a file name: the last dot and what follows it, unless
\* the dot is the first or the last character
suffix(name) ==
    LET i == rfind(name, ".")
    IN  IF 0 < i /\ i < Len(name) - 1
        THEN SubSeq(name, i + 1, Len(name))
        ELSE <<>>

\* the components of a relative path string: split at "/", with empty
\* components and "." dropped
RECURSIVE parts_from(_, _)
parts_from(s, i) ==
    IF i > Len(s) THEN <<>>
    ELSE LET slash == find_from(s, "/", i)
             stop == IF slash = 0 THEN Len(s) + 1 ELSE slash
             part == SubSeq(s, i, stop - 1)
             rest == parts_from(s, stop + 1)
         IN  IF part = <<>> \/ part = <<".">> THEN rest ELSE <<part>> \o rest

\* path / s for a relative s
joinpath(path, s) == path \o parts_from(s, 1)

parent(path) == SubSeq(path, 1, Len(path) - 1)

basename(path) == path[Len(path)]

root == <<>>

exists(f, path) == path = root \/ path \in DOMAIN f

is_dir(f, path) == path = root \/ (path \in DOMAIN f /\ f[path].dir)

\* Path.is_file: false for a directory and for a path that does not exist
is_file(f, path) == path \in DOMAIN f /\ ~f[path].dir

\* the entries of one directory, as os.listdir / os.scandir return them
listdir(f, dir) == {p \in DOMAIN f : Len(p) = Len(dir) + 1 /\ parent(p) = dir}

\* the function f without the path p
without(f, p) == [q \in DOMAIN f \ {p} |-> f[q]]

\* Path.mkdir(exist_ok=True) with the default parents=False, as [raised, fs]
mkdir(f, path) ==
    IF is_dir(f, path) THEN [raised |-> "none", fs |-> f]
    ELSE IF exists(f, path) THEN [raised |-> "FileExistsError", fs |-> f]
    ELSE IF ~exists(f, parent(path))
        THEN [raised |-> "FileNotFoundError", fs |-> f]
    ELSE IF ~is_dir(f, parent(path))
        THEN [raised |-> "NotADirectoryError", fs |-> f]
    ELSE [raised |-> "none",
          fs |-> f @@ (path :> [dir |-> TRUE, ino |-> 0,
                                st_size |-> 0, st_mtime |-> 0])]

\* the inode number of the file at a path, 0 when nothing is there
ino_of(f, path) == IF exists(f, path) THEN f[path].ino ELSE 0

\* a rename that copies: the source stays where it was
rename_copy(f, src, dst) ==
    IF ~exists(f, src) THEN [raised |-> "FileNotFoundError", fs |-> f]
    ELSE IF ~is_dir(f, parent(dst))
        THEN [raised |-> "NotADirectoryError", fs |-> f]
    ELSE IF is_dir(f, dst) THEN [raised |-> "IsADirectoryError", fs |-> f]
    ELSE [raised |-> "none", fs |-> [q \in DOMAIN f \cup {dst} |->
                                       IF q = dst THEN f[src] ELSE f[q]]]

\* Path.rename(target) of a regular file (POSIX rename(2)), as [raised, fs]:
\* an existing regular file at the target is replaced, a directory is not
rename(f, src, dst) ==
    IF ~exists(f, src) THEN [raised |-> "FileNotFoundError", fs |-> f]
    ELSE IF ~is_dir(f, parent(dst))
        THEN [raised |-> "NotADirectoryError", fs |-> f]
    ELSE IF is_dir(f, dst) THEN [raised |-> "IsADirectoryError", fs |-> f]
    ELSE IF src = dst THEN [raised |-> "none", fs |-> f]
    ELSE [raised |-> "none",
          fs |-> [q \in (DOMAIN f \ {src}) \cup {dst} |->
                     IF q = dst THEN f[src] ELSE f[q]]]

-----------------------------------------------------------------------------
(* The classifiers: the folder name each organizer computes for a file. *)

\* the date fields of datetime.fromtimestamp(m_time): the civil date of the
\* day that holds the timestamp (proleptic Gregorian calendar)
fromtimestamp(m_time) ==
    LET z == (m_time \div 86400) + 719468
        era == z \div 146097
        doe == z - era * 146097
        yoe == (doe - doe \div 1460 + doe \div 36524 - doe \div 146096) \div 365
        doy == doe - (365 * yoe + yoe \div 4 - yoe \div 100)
        mp == (5 * doy + 2) \div 153
        m == IF mp < 10 THEN mp + 3 ELSE mp - 9
    IN  [year |-> yoe + era * 400 + (IF m <= 2 THEN 1 ELSE 0),
         month |-> m,
         day |-> doy - (153 * mp + 2) \div 5 + 1]

\* the dict size_map in insertion order; float("inf") is the flag inf
size_map ==
    << [name |-> <<"T", "i", "n", "y">>,
        min_size |-> 0, max_size |-> 1024, inf |-> FALSE],
       [name |-> <<"S", "m", "a", "l", "l">>,
        min_size |-> 1024, max_size |-> 1048576, inf |-> FALSE],
       [name |-> <<"M", "e", "d", "i", "u", "m">>,
        min_size |-> 1048576, max_size |-> 134217728, inf |-> FALSE],
       [name |-> <<"L", "a", "r", "g", "e">>,
        min_size |-> 134217728, max_size |-> 1073741824, inf |-> FALSE],
       [name |-> <<"H", "u", "g", "e">>,
        min_size |-> 1073741824, max_size |-> 0, inf |-> TRUE] >>

\* a bucket that is closed at its upper end
in_range_closed(size, bucket) ==
    /\ bucket.min_size <= size
    /\ (bucket.inf \/ size <= bucket.max_size)

\* min_size <= size < max_size
in_range(size, bucket) ==
    /\ bucket.min_size <= size
    /\ (bucket.inf \/ size < bucket.max_size)

\* the inner for loop of organize_by_size: the first bucket that holds the
\* size, "Unknown" when the loop ends without a break
RECURSIVE dest_folder_name_from(_, _)
dest_folder_name_from(size, k) ==
    IF k > Len(size_map) THEN <<"U", "n", "k", "n", "o", "w", "n">>
    ELSE IF in_range(size, size_map[k]) THEN size_map[k].name
    ELSE dest_folder_name_from(size, k + 1)

dest_folder_name(size) == dest_folder_name_from(size, 1)

\* an exception with the call that raised it, and no exception
Raised(type, call) == [type |-> type, call |-> call]

NoException == Raised("none", "none")

\* The three results below are records [raised, call, skip, name]: the
\* exception the lines raise ("none" if none) with the call that raises it,
\* whether the file is skipped for having no extension, and the folder name
\* dest_dir_name.

classify_by_extension(f, path, template) ==
    LET extension == lower(suffix(basename(path)))
        r == format(template,
                    <<"e", "x", "t">> :> SubSeq(extension, 2, Len(extension)))
    IN  IF extension = <<>>
        THEN [raised |-> "none", call |-> "none", skip |-> TRUE, name |-> <<>>]
        ELSE [raised |-> r.raised, call |-> "format", skip |-> FALSE,
              name |-> r.value]

classify_by_date(f, path, template) ==
    IF ~exists(f, path)
    THEN [raised |-> "FileNotFoundError", call |-> "stat", skip |-> FALSE,
          name |-> <<>>]
    ELSE LET dt_object == fromtimestamp(f[path].st_mtime)
             r == format(template,
                         (<<"Y", "Y", "Y", "Y">> :> str_int(dt_object.year))
                      @@ (<<"M", "M">> :> pad02(dt_object.month))
                      @@ (<<"D", "D">> :> pad02(dt_object.day)))
         IN  [raised |-> r.raised, call |-> "format", skip |-> FALSE,
              name |-> r.value]

classify_by_size(f, path, template) ==
    IF ~exists(f, path)
    THEN [raised |-> "FileNotFoundError", call |-> "stat", skip |-> FALSE,
          name |-> <<>>]
    ELSE LET r == format(template,
                         <<"s", "i", "z", "e">> :>
                             dest_folder_name(f[path].st_size))
         IN  [raised |-> r.raised, call |-> "format", skip |-> FALSE,
              name |-> r.value]

-----------------------------------------------------------------------------
(* The loop body shared by the three organizers. *)

\* a filter that lets hidden files through
is_eligible_hidden(f, path) == is_file(f, path)

\* the filter at the head of the loop: `continue` unless it holds
is_eligible(f, path) ==
    is_file(f, path) /\ ~startswith(basename(path), <<".">>)

\* a folder resolved against the directory that holds the file
dest_dir_in_parent(path, dest_dir_name) ==
    joinpath(parent(path), dest_dir_name)

\* dest_dir = path / dest_dir_name: the folder is resolved against the root
\* given on the command line, whatever directory holds the file
dest_dir_of(path, dest_dir_name) == joinpath(root, dest_dir_name)

\* a loop body that makes the directory before it looks at dry_run
move_file_mkdir_first(f, dry_run, path, dir) ==
    LET made == mkdir(f, dir)
        moved == rename(made.fs, path, dir \o <<basename(path)>>)
    IN  IF made.raised # "none"
        THEN [raised |-> made.raised, fs |-> f, kind |-> "none"]
        ELSE IF dry_run
        THEN [raised |-> "none", fs |-> made.fs, kind |-> "would_move"]
        ELSE IF moved.raised # "none"
        THEN [raised |-> "none", fs |-> made.fs, kind |-> "error"]
        ELSE [raised |-> "none", fs |-> moved.fs, kind |-> "moved"]

\* the lines from `if dry_run:` to the end of the loop body, as
\* [raised, fs, kind]: the exception that leaves the loop ("none" if none),
\* the tree afterwards and the kind of line printed
move_file(f, dry_run, path, dir) ==
    IF dry_run THEN [raised |-> "none", fs |-> f, kind |-> "would_move"]
    ELSE LET made == mkdir(f, dir)
             moved == rename(made.fs, path, dir \o <<basename(path)>>)
         IN  IF made.raised # "none"
             THEN [raised |-> made.raised, fs |-> f, kind |-> "none"]
             ELSE IF moved.raised # "none"
             THEN [raised |-> "none", fs |-> made.fs, kind |-> "error"]
             ELSE [raised |-> "none", fs |-> moved.fs, kind |-> "moved"]

\* an iterator that descends whatever the flag says
unlisted_always(f, done, recursive) ==
    {d \in DOMAIN f : f[d].dir /\ d \notin done}

\* path.rglob("*") if recursive else path.iterdir(): the directories whose
\* entries the iterator may still list
unlisted(f, done, recursive) ==
    IF recursive THEN {d \in DOMAIN f : f[d].dir /\ d \notin done} ELSE {}

-----------------------------------------------------------------------------
(* The command lines and the directory trees the model starts from. *)

a_txt == <<"a", ".", "t", "x", "t">>
b_TXT == <<"b", ".", "T", "X", "T">>
notes == <<"n", "o", "t", "e", "s">>
dot_env == <<".", "e", "n", "v">>
sub == <<"s", "u", "b">>
txt == <<"t", "x", "t">>
Tiny == <<"T", "i", "n", "y">>

File(ino, st_size, st_mtime) ==
    [dir |-> FALSE, ino |-> ino, st_size |-> st_size, st_mtime |-> st_mtime]

Dir == [dir |-> TRUE, ino |-> 0, st_size |-> 0, st_mtime |-> 0]

\* files of several kinds at the top
TreeMixed ==
       (<<a_txt>> :> File(1, 0, 1709596800))
    @@ (<<notes>> :> File(2, 1024, 946684799))
    @@ (<<dot_env>> :> File(3, 1023, 1709596800))

\* a file with an upper-case extension below a subdirectory
TreeDeep ==
       (<<notes>> :> File(1, 1073741823, 1709596800))
    @@ (<<sub>> :> Dir)
    @@ (<<sub, b_TXT>> :> File(2, 1048576, 946684799))

\* regular files that bear the names of destination folders
TreeBlocked ==
       (<<a_txt>> :> File(1, 1023, 1709596800))
    @@ (<<txt>> :> File(2, 134217728, 946684799))
    @@ (<<Tiny>> :> File(3, 1073741824, 946684799))

\* a directory where the moved file should go
TreeCollision ==
       (<<a_txt>> :> File(1, 1048575, 1709596800))
    @@ (<<txt>> :> Dir)
    @@ (<<txt, a_txt>> :> Dir)

\* the same file name below two directories, one of them the folder of a
\* size bucket that is not the file's own, and a hidden file below a directory
TreeNested ==
       (<<sub>> :> Dir)
    @@ (<<sub, a_txt>> :> File(1, 0, 1709596800))
    @@ (<<sub, dot_env>> :> File(2, 134217727, 1709596800))
    @@ (<<Tiny>> :> Dir)
    @@ (<<Tiny, a_txt>> :> File(3, 1024, 946684799))

Trees == {TreeMixed, TreeDeep, TreeBlocked, TreeCollision, TreeNested}

\* --ext-template: the default, a placeholder of another strategy, a folder
\* below sub, and the root itself
ExtTemplates ==
    { <<"{", "e", "x", "t", "}">>,
      <<"{", "s", "i", "z", "e", "}">>,
      <<"s", "u", "b", "/", "{", "e", "x", "t", "}">>,
      <<".">> }

\* --date-template: the default and a placeholder of another strategy
DateTemplates ==
    { <<"{", "Y", "Y", "Y", "Y", "}", "-", "{", "M", "M", "}", "-",
        "{", "D", "D", "}">>,
      <<"{", "e", "x", "t", "}">> }

\* --size-template: the default, a placeholder of another strategy, and the
\* root itself
SizeTemplates ==
    { <<"{", "s", "i", "z", "e", "}">>,
      <<"{", "e", "x", "t", "}">>,
      <<".">> }

\* the command lines: the template of a strategy that is not selected is
\* never read and keeps its default
CommandLines ==
    { a \in [by_extension : BOOLEAN, by_date : BOOLEAN, by_size : BOOLEAN,
             recursive : BOOLEAN, dry_run : BOOLEAN,
             ext_template : ExtTemplates, date_template : DateTemplates,
             size_template : SizeTemplates] :
        /\ a.by_extension \/ a.ext_template = <<"{", "e", "x", "t", "}">>
        /\ a.by_date \/ a.date_template[2] = "Y"
        /\ a.by_size \/ a.size_template = <<"{", "s", "i", "z", "e", "}">> }

Start(tree, a) ==
    /\ fs = tree
    /\ args = a
    /\ stage = "check"
    /\ phase = "idle"
    /\ items = {}
    /\ listed = {}
    /\ item = root
    /\ dest_dir = root
    /\ console = {}
    /\ exc = NoException
    /\ runs = 1
    /\ deletes = 0
    /\ yielded = {}
    /\ classified = {}
    /\ fsInv = tree
    /\ fsRun = tree
    /\ ran = "none"
    /\ prev = [stage |-> "none", failed |-> FALSE, in_place |-> FALSE]

Init == \E tree \in Trees, a \in CommandLines : Start(tree, a)

-----------------------------------------------------------------------------
(* main. *)

Strategies == {"extension", "date", "size"}

\* the statement of main that follows the call of an organizer
after(s) ==
    CASE s = "check" -> "extension"
      [] s = "extension" -> "date"
      [] s = "date" -> "size"
      [] s = "size" -> "complete"

selected(a, s) ==
    CASE s = "extension" -> a.by_extension
      [] s = "date" -> a.by_date
      [] s = "size" -> a.by_size

\* One statement of main: the check that a mode is selected, which ends the
\* process with typer.Exit when none is, or one of the three `if` statements,
\* which calls its organizer (the iterator is created and lists the root)
\* or goes on to the next statement.
main ==
    /\ phase = "idle"
    /\ stage \in {"check"} \cup Strategies
    /\ IF stage = "check"
       THEN /\ stage' = IF args.by_extension \/ args.by_date \/ args.by_size
                        THEN "extension" ELSE "exit"
            /\ UNCHANGED <<phase, items, listed, fsRun, ran>>
       ELSE IF selected(args, stage)
       THEN /\ phase' = "loop"
            /\ items' = listdir(fs, root)
            /\ listed' = {root}
            /\ fsRun' = fs
            /\ ran' = "none"
            /\ UNCHANGED stage
       ELSE /\ stage' = after(stage)
            /\ UNCHANGED <<phase, items, listed, fsRun, ran>>
    /\ UNCHANGED <<fs, args, item, dest_dir, console, exc, runs, deletes,
                   yielded, classified, fsInv, prev>>

-----------------------------------------------------------------------------
(* The organizers.  s is the strategy: "extension", "date" or "size". *)

running(s) == stage = s /\ phase # "idle"

\* `for item in items`: the iterator yields the next entry, and the filter
\* at the head of the body either skips it or lets it through
next_item(s) ==
    /\ running(s) /\ phase = "loop"
    /\ \E p \in items :
        /\ items' = items \ {p}
        /\ yielded' = yielded \cup {[strategy |-> s, item |-> p]}
        /\ IF is_eligible(fs, p)
           THEN phase' = "classify" /\ item' = p
           ELSE phase' = "loop" /\ UNCHANGED item
    /\ UNCHANGED <<fs, args, stage, listed, dest_dir, console, exc, runs,
                   deletes, classified, fsInv, fsRun, ran, prev>>

\* rglob: the entries of one directory are exhausted and the iterator lists
\* the entries of another directory
next_directory(s) ==
    /\ running(s) /\ phase = "loop"
    /\ items = {}
    /\ \E d \in unlisted(fs, listed, args.recursive) :
        /\ items' = listdir(fs, d)
        /\ listed' = listed \cup {d}
    /\ UNCHANGED <<fs, args, stage, phase, item, dest_dir, console, exc,
                   runs, deletes, yielded, classified, fsInv, fsRun, ran, prev>>

\* the iterator is exhausted and the organizer returns to main.  Whether
\* rglob still visits a directory made during the walk depends on the moment
\* it listed the parent, so the walk may also end with such directories
\* unvisited; it visits every directory that was there when it began.
return(s) ==
    /\ running(s) /\ phase = "loop"
    /\ items = {}
    /\ unlisted(fs, listed, args.recursive) \cap DOMAIN fsRun = {}
    /\ phase' = "idle"
    /\ stage' = after(s)
    /\ ran' = s
    /\ UNCHANGED <<fs, args, items, listed, item, dest_dir, console, exc,
                   runs, deletes, yielded, classified, fsInv, fsRun, prev>>

\* what the lines between the filter and `if dry_run:` do with the result
\* c of the strategy's classifier
classify(s, c) ==
    /\ running(s) /\ phase = "classify"
    /\ IF c.raised # "none"
       THEN /\ exc' = Raised(c.raised, c.call)
            /\ stage' = "raised"
            /\ phase' = "idle"
            /\ UNCHANGED <<dest_dir, console, classified>>
       ELSE IF c.skip
       THEN /\ console' = console \cup
                  {[strategy |-> s, item |-> item, kind |-> "skipping",
                    ino |-> ino_of(fs, item), dest |-> root]}
            /\ phase' = "loop"
            /\ UNCHANGED <<dest_dir, exc, stage, classified>>
       ELSE /\ dest_dir' = dest_dir_of(item, c.name)
            /\ classified' = classified \cup
                  {[strategy |-> s, ino |-> ino_of(fs, item)]}
            /\ phase' = "move"
            /\ UNCHANGED <<console, exc, stage>>
    /\ UNCHANGED <<fs, args, items, listed, item, runs, deletes, yielded,
                   fsInv, fsRun, ran, prev>>

\* from `if dry_run:` to the end of the loop body
move(s) ==
    /\ running(s) /\ phase = "move"
    /\ LET m == move_file(fs, args.dry_run, item, dest_dir)
       IN  IF m.raised # "none"
           THEN /\ exc' = Raised(m.raised, "mkdir")
                /\ stage' = "raised"
                /\ phase' = "idle"
                /\ UNCHANGED <<fs, console>>
           ELSE /\ fs' = m.fs
                /\ console' = console \cup
                      {[strategy |-> s, item |-> item, kind |-> m.kind,
                        ino |-> ino_of(fs, item),
                        dest |-> dest_dir \o <<basename(item)>>]}
                /\ phase' = "loop"
                /\ UNCHANGED <<exc, stage>>
    /\ UNCHANGED <<args, items, listed, item, dest_dir, runs, deletes,
                   yielded, classified, fsInv, fsRun, ran, prev>>

organize_by_extension ==
    \/ next_item("extension")
    \/ next_directory("extension")
    \/ classify("extension",
                classify_by_extension(fs, item, args.ext_template))
    \/ move("extension")
    \/ return("extension")

organize_by_date ==
    \/ next_item("date")
    \/ next_directory("date")
    \/ classify("date", classify_by_date(fs, item, args.date_template))
    \/ move("date")
    \/ return("date")

organize_by_size ==
    \/ next_item("size")
    \/ next_directory("size")
    \/ classify("size", classify_by_size(fs, item, args.size_template))
    \/ move("size")
    \/ return("size")

-----------------------------------------------------------------------------
(* The environment. *)

\* the process has ended and the user runs the same command line again
run_again ==
    /\ stage \in {"complete", "exit", "raised"}
    /\ runs < MaxRuns
    /\ runs' = runs + 1
    /\ stage' = "check"
    /\ exc' = NoException
    /\ console' = {}
    /\ yielded' = {}
    /\ classified' = {}
    /\ fsInv' = fs
    /\ fsRun' = fs
    /\ ran' = "none"
    /\ prev' = [stage |-> stage,
                failed |-> \E r \in console : r.kind = "error",
                in_place |-> \E r \in console :
                                r.kind = "moved" /\ r.dest = r.item]
    /\ UNCHANGED <<fs, args, phase, items, listed, item, dest_dir, deletes>>

\* another process deletes a regular file while an organizer is running
unlink ==
    /\ phase # "idle"
    /\ deletes < MaxDeletes
    /\ \E p \in DOMAIN fs :
        /\ ~fs[p].dir
        /\ fs' = without(fs, p)
    /\ deletes' = deletes + 1
    /\ UNCHANGED <<args, stage, phase, items, listed, item, dest_dir,
                   console, exc, runs, yielded, classified, fsInv, fsRun, ran, prev>>

Next ==
    \/ main
    \/ organize_by_extension
    \/ organize_by_date
    \/ organize_by_size
    \/ run_again

Spec == Init /\ [][Next]_vars

\* the program, started with the default templates, beside a process that
\* deletes files
InitShared ==
    \E tree \in Trees, a \in CommandLines :
        /\ a.ext_template = <<"{", "e", "x", "t", "}">>
        /\ a.date_template[2] = "Y"
        /\ a.size_template = <<"{", "s", "i", "z", "e", "}">>
        /\ Start(tree, a)

NextShared == Next \/ unlink

SpecShared == InitShared /\ [][NextShared]_vars

\* the program started with one file of a size near a bucket boundary and
\* run by size alone, with the default template
Boundaries == {size_map[k].min_size : k \in 1..Len(size_map)}

Sizes ==
    {b + d : b \in Boundaries, d \in (0 - SizeSpread)..SizeSpread} \cap Nat

InitSize ==
    \E size \in Sizes, a \in CommandLines :
        /\ a.by_size /\ ~a.by_extension /\ ~a.by_date
        /\ a.size_template = <<"{", "s", "i", "z", "e", "}">>
        /\ Start(<<a_txt>> :> File(1, size, 1709596800), a)

NextSize == main \/ organize_by_size

SpecSize == InitSize /\ [][NextSize]_vars

-----------------------------------------------------------------------------
(* The claims. *)

\* the result of the classifier of strategy s for the file at path in f
classifier(s, f, path) ==
    CASE s = "extension" -> classify_by_extension(f, path, args.ext_template)
      [] s = "date" -> classify_by_date(f, path, args.date_template)
      [] s = "size" -> classify_by_size(f, path, args.size_template)

\* an organizer has just returned to main and no other has started since
returned == phase = "idle" /\ ran \in Strategies

\* the entries the walk of the organizer covers
in_scope(path) == args.recursive \/ Len(path) = 1

\* strategy s runs before strategy t in main
earlier(s, t) ==
    \/ s = "extension" /\ t \in {"date", "size"}
    \/ s = "date" /\ t = "size"

\* C1 as claimed: after a run that is not a dry run, every eligible file that
\* is classified to a folder name is gone from its original path and there
\* is a file at root/<folder_name>/<basename>.
C1_EveryEligibleFileIsMoved ==
    (returned /\ ~args.dry_run) =>
        \A p \in DOMAIN fsRun :
            LET c == classifier(ran, fsRun, p)
            IN  (in_scope(p) /\ is_eligible(fsRun, p)
                    /\ c.raised = "none" /\ ~c.skip) =>
                    /\ ~exists(fs, p)
                    /\ is_file(fs, joinpath(root, c.name) \o <<basename(p)>>)

\* C1 as amended: after a run that is not a dry run, for every file the run
\* reported as moved there is a file at root/<folder_name>/<basename>, the
\* folder name being the one the strategy maps that file to, resolved
\* against the root; and the moved file is no longer at the path it was
\* found at, unless that path is the destination itself.
C1_MovedFilesArrive ==
    (returned /\ ~args.dry_run) =>
        \A r \in console :
            (r.strategy = ran /\ r.kind = "moved") =>
                /\ is_file(fs, r.dest)
                /\ r.dest = joinpath(root, classifier(ran, fs, r.dest).name)
                                \o <<basename(r.item)>>
                /\ \/ r.dest = r.item
                   \/ ~exists(fs, r.item)
                   \/ fs[r.item].ino # r.ino

\* C1 witness: a recursive run by extension has returned after moving a file
\* out of a subdirectory.
C1_Witness ==
    /\ returned /\ ran = "extension" /\ ~args.dry_run /\ args.recursive
    /\ \E r \in console :
        /\ r.kind = "moved" /\ r.strategy = "extension"
        /\ Len(r.item) = 2 /\ r.dest # r.item
        /\ ~exists(fs, r.item)

\* C2: a dry run never changes the tree: the directories and the files
\* under the root are those the invocation started with.
C2_DryRunLeavesTreeUnchanged == args.dry_run => fs = fsInv

\* C2 witness: a recursive dry run of all three strategies has completed
\* and has reported moves it would make.
C2_Witness ==
    /\ args.dry_run /\ args.recursive /\ stage = "complete"
    /\ args.by_extension /\ args.by_date /\ args.by_size
    /\ \A s \in Strategies :
        \E r \in console : r.kind = "would_move" /\ r.strategy = s

\* C3 as claimed: a failure to create the destination directory is reported
\* for that file and does not end the run: no exception raised by mkdir
\* leaves main.
C3_MkdirFailureDoesNotAbort == ~(stage = "raised" /\ exc.call = "mkdir")

\* C4 as claimed: a template that names a placeholder the strategy does not
\* supply gives a failure for the file and does not end the run: no
\* exception raised by format leaves main.
C4_TemplateErrorDoesNotAbort == ~(stage = "raised" /\ exc.call = "format")

\* C5 as claimed: a file that another process deletes between its
\* enumeration and its move is reported as failed and the run goes on: no
\* exception raised by stat leaves main.
C5_VanishedFileDoesNotAbort == ~(stage = "raised" /\ exc.call = "stat")

\* C6 as claimed: a file that an earlier strategy of the invocation moved
\* is not classified again by a later strategy.
C6_MovedFilesAreNotRevisited ==
    \A m \in console, c \in classified :
        (m.kind = "moved" /\ m.ino = c.ino) => ~earlier(m.strategy, c.strategy)

\* C6 as amended: in an invocation that is not recursive, a file that an
\* earlier strategy moved into a folder below the root (not into the root
\* itself) is not classified again by a later strategy.
C6_MovedFilesAreNotRevisitedFlat ==
    ~args.recursive =>
        \A m \in console, c \in classified :
            (m.kind = "moved" /\ m.ino = c.ino /\ parent(m.dest) # root)
                => ~earlier(m.strategy, c.strategy)

\* C6 witness: an invocation that is not recursive has completed, and the
\* extension strategy and then the date strategy have each moved a file.
C6_Witness ==
    /\ ~args.recursive /\ stage = "complete"
    /\ \E m \in console :
        m.kind = "moved" /\ m.strategy = "extension" /\ parent(m.dest) # root
    /\ \E m \in console : m.kind = "moved" /\ m.strategy = "date"

\* C7 as claimed: after a run that is neither recursive nor dry and in which
\* every move succeeded, a second run of the same command line classifies
\* no file, moves none and leaves the tree as the first run left it.
C7_SecondRunIsNoOp ==
    (runs > 1 /\ prev.stage = "complete" /\ ~prev.failed
        /\ ~args.recursive /\ ~args.dry_run) =>
        /\ classified = {}
        /\ \A r \in console : r.kind # "moved"
        /\ fs = fsInv

\* C7 as amended: the same, provided every move of the first run put the
\* file at another path than the one it was found at (the folder name did
\* not resolve to the root itself).
C7_SecondRunIsNoOpAfterRelocation ==
    (runs > 1 /\ prev.stage = "complete" /\ ~prev.failed /\ ~prev.in_place
        /\ ~args.recursive /\ ~args.dry_run) =>
        /\ classified = {}
        /\ \A r \in console : r.kind # "moved"
        /\ fs = fsInv

\* C7 witness: the second run by extension has completed over a tree in
\* which the first run had moved a.txt into txt/.
C7_Witness ==
    /\ runs > 1 /\ prev.stage = "complete" /\ ~prev.failed /\ ~prev.in_place
    /\ ~args.recursive /\ ~args.dry_run /\ args.by_extension
    /\ stage = "complete"
    /\ is_file(fs, <<txt, a_txt>>) /\ ~exists(fs, <<a_txt>>)
    /\ \E y \in yielded : y.item = <<txt>>

\* C8: an entry that is a directory or whose name starts with "." when the
\* invocation starts stays where it is, unchanged, and no line reports it
\* as moved or as a move a dry run would make.
C8_HiddenAndDirectoriesStay ==
    /\ \A p \in DOMAIN fsInv :
        (fsInv[p].dir \/ startswith(basename(p), <<".">>)) =>
            /\ exists(fs, p) /\ fs[p] = fsInv[p]
            /\ \A r \in console :
                r.item = p => r.kind \notin {"moved", "would_move"}
    /\ \A r \in console :
        r.kind \in {"moved", "would_move"} =>
            ~startswith(basename(r.item), <<".">>)

\* C8 witness: a recursive run that is not a dry run has yielded a hidden
\* file below a subdirectory and a directory, and has moved another file.
C8_Witness ==
    /\ args.recursive /\ ~args.dry_run /\ stage = "complete"
    /\ \E y \in yielded : y.item = <<sub, dot_env>>
    /\ \E y \in yielded : y.item = <<sub>>
    /\ \E r \in console : r.kind = "moved"

\* the half-open partition of the sizes, stated bucket by bucket
bucket_of(size) ==
    CASE 0 <= size /\ size < 1024 -> <<"T", "i", "n", "y">>
      [] 1024 <= size /\ size < 1048576 -> <<"S", "m", "a", "l", "l">>
      [] 1048576 <= size /\ size < 134217728 ->
            <<"M", "e", "d", "i", "u", "m">>
      [] 134217728 <= size /\ size < 1073741824 ->
            <<"L", "a", "r", "g", "e">>
      [] 1073741824 <= size -> <<"H", "u", "g", "e">>

\* C9: with the default template the size organizer sends a file of any
\* non-negative size to the folder of the bucket of the half-open partition
\* that holds the size, and never to "Unknown".
C9_SizeBucketsPartition ==
    (stage = "size" /\ phase = "move") =>
        /\ dest_dir = <<bucket_of(fs[item].st_size)>>
        /\ dest_dir # <<<<"U", "n", "k", "n", "o", "w", "n">>>>

\* C9 witness: a file of exactly 1,048,576 bytes is about to be moved to
\* Medium.
C9_Witness ==
    /\ stage = "size" /\ phase = "move"
    /\ exists(fs, item) /\ fs[item].st_size = 1048576
    /\ dest_dir = <<<<"M", "e", "d", "i", "u", "m">>>>

\* C10 as claimed: when an organizer returns, every entry its walk yielded
\* has exactly one line of outcome.
C10_EveryEntryHasOneOutcome ==
    returned =>
        \A y \in yielded :
            y.strategy = ran =>
                Cardinality({r \in console :
                                r.strategy = ran /\ r.item = y.item}) = 1

====
